---- MODULE Spec2Model ----
(***************************************************************************)
(* The AI model lifecycle controller of Handy's settings UI                *)
(* (AiModelSelector with its AiModelDropdown), the settings store it       *)
(* persists the selection in, the Ollama backend command facade and the    *)
(* two Tauri event subscriptions it holds.                                 *)
(*                                                                         *)
(* Every await of the source is a point where other callbacks may run, so  *)
(* each handler is split at its awaits: the part up to the first await is  *)
(* one action, every continuation is one action.  A call in flight is an   *)
(* element of ops; a subscription (a listen() call) is an element of subs. *)
(***************************************************************************)
EXTENDS Integers, Sequences, FiniteSets, TLC

(***************************************************************************)
(* Bounds of the exploration.                                              *)
(***************************************************************************)
MaxMounts == 1      \* activations of the component
MaxIntents == 2     \* user clicks on Use / Pull / Delete
MaxBatch == 2       \* handlers that run before React renders (one turn)
MaxEffectRuns == 3  \* runs of AiStatusIndicator's effect
MaxChecks == 3      \* checkStatus calls of AiStatusIndicator in flight

(***************************************************************************)
(* Strings are sequences of tokens so that startsWith is computed.         *)
(***************************************************************************)
Empty == <<>>                 \* the string ""
Null == <<"null">>            \* the settings store's null / unset value
Fast1b == <<"fast-1b">>
Big7b == <<"big-7b">>
Models == {Fast1b, Big7b}     \* the catalog ids getAvailableAiModels returns
Tag == <<"-q4">>              \* the variant suffix Ollama reports

BackendName(m) == m \o Tag

StartsWith(s, p) ==
    /\ Len(p) <= Len(s)
    /\ SubSeq(s, 1, Len(p)) = p

AiModelStatus == {"ready", "pulling", "error", "not_installed", "ollama_unavailable"}

\* the payloads of the ai-model-pull-progress events the backend emits
ProgressPayloads(id) ==
    { [model_id |-> id, status |-> "pulling manifest", percentage |-> 0],
      [model_id |-> id, status |-> "downloading", percentage |-> 50] }

Outcomes == {"ok", "error", "throw"}

\* result.error of an error result: a message, or the empty string
BackendErrors == { <<"model not found">>, Empty }

\* a || b on strings
OrElse(a, b) == IF a = Empty THEN b ELSE a

\* the notifications (sonner toasts) the handlers raise
NoToast == [level |-> "none", text |-> Empty]

Toasted(level, text) == [level |-> level, text |-> text]

FailedToSelect == <<"Failed to select model">>
FailedToPull == <<"Failed to pull model">>
FailedToDelete == <<"Failed to delete model">>

VARIABLES
    mounted,            \* the component is mounted (the controller is active)
    inst,               \* number of mounts so far: the current instance
    availableModels,    \* useState: catalog shown in the dropdown
    downloadedModels,   \* useState: names listOllamaModels returned
    modelStatus,        \* useState: AiModelStatus
    ollamaAvailable,    \* useState
    showDropdown,       \* useState: the dropdown is open
    pullProgress,       \* useState: Map model id -> PullProgress, its entries
                        \* in insertion order
    ai_selected_model,  \* the settings store's "ai_selected_model"
    backendUp,          \* the Ollama daemon is reachable
    installed,          \* the models the daemon holds
    completePending,    \* ai-model-pull-complete events emitted, not yet delivered
    ops,                \* calls in flight, each with the handler waiting for it
    subs,               \* listen() subscriptions
    intents,            \* user clicks so far
    toast,              \* the notification the last handler step raised
    updateQueue,        \* React: the setState calls of the turn, not yet rendered
    applied,            \* history: the setState calls the last render applied
    ai_enhancement_enabled, \* the settings store's "ai_enhancement_enabled"
    indicator,          \* AiStatusIndicator: its useState values
    checks,             \* AiStatusIndicator: checkStatus calls in flight
    effectRun,          \* AiStatusIndicator: runs of its effect so far
    statusFrom,         \* history: the effect run whose checkStatus set the
                        \* indicator's status last
    last,               \* history: the handler or continuation that ran last
    quiet               \* history: per id, which of {pull result, completion
                        \* event} were handled since the last other operation

compVars == <<availableModels, downloadedModels, modelStatus, showDropdown,
              ollamaAvailable, pullProgress>>
backendVars == <<backendUp, installed, completePending>>
batchVars == <<updateQueue, applied>>
indicatorVars == <<ai_enhancement_enabled, indicator, checks, effectRun, statusFrom>>
vars == <<mounted, inst, availableModels, downloadedModels, modelStatus,
          showDropdown, ollamaAvailable, pullProgress, ai_selected_model, backendUp,
          installed, completePending, ops, subs, intents, toast, last, quiet,
          updateQueue, applied, ai_enhancement_enabled, indicator, checks,
          effectRun, statusFrom>>

(***************************************************************************)
(* const selectedModel = getSetting("ai_selected_model") || "";            *)
(***************************************************************************)
selectedModel == IF ai_selected_model = Null THEN Empty ELSE ai_selected_model

\* a call in flight; n tells the pull calls in flight for one id apart, it
\* is 0 for every other call
Op(kind, id, sel, phase) ==
    [kind |-> kind, id |-> id, sel |-> sel, phase |-> phase, alive |-> TRUE, n |-> 0]

\* listen(type, handler): the event channel holds the handler from the call
\* on, until the unlisten function is called.  When the promise of the
\* unlisten function resolves shows only in the cleanup, so it is decided
\* there: cleanup is set on a subscription whose promise was still pending.
Sub(type) ==
    [type |-> type, inst |-> inst + 1, cleanup |-> FALSE]

\* a subscription whose handler the event channel calls
Live(s) == s \in subs

\* a live subscription of the mounted instance: its handler's setState calls act
Hears(type) ==
    \E s \in subs : s.type = type /\ Live(s) /\ mounted /\ s.inst = inst

\* last names the handler or continuation that ran last, the id it was about
\* and whether it ran for the mounted instance; the steps of the backend and
\* of the event channel, and loadModels' continuations, leave it alone
Did(name, id) == last' = [op |-> name, id |-> id, alive |-> TRUE]

DidOp(name, op) == last' = [op |-> name, id |-> op.id, alive |-> op.alive]

Disturb == quiet' = [m \in Models |-> "none"]

MarkResult(id) ==
    quiet' = [m \in Models |->
                IF m # id THEN "none"
                ELSE IF quiet[id] \in {"complete", "both"} THEN "both" ELSE "result"]

MarkComplete(id) ==
    quiet' = [m \in Models |->
                IF m # id THEN "none"
                ELSE IF quiet[id] \in {"result", "both"} THEN "both" ELSE "complete"]

\* AiStatusIndicator's useState initial values
IndicatorUnmounted ==
    [status |-> "off", currentModel |-> Empty, downloadedModels |-> {},
     ollamaAvailable |-> FALSE, pullProgress |-> Null]

\* the settings window alone: no turn of batched updates is followed, and
\* the status indicator is not on screen
SelectorAlone ==
    /\ updateQueue = <<>>
    /\ applied = <<>>
    /\ ai_enhancement_enabled = FALSE
    /\ indicator = IndicatorUnmounted
    /\ checks = {}
    /\ effectRun = 0
    /\ statusFrom = 0

Init ==
    /\ SelectorAlone
    /\ mounted = FALSE
    /\ inst = 0
    /\ availableModels = {}
    /\ downloadedModels = {}
    /\ modelStatus = "not_installed"
    /\ showDropdown = FALSE
    /\ ollamaAvailable = FALSE
    /\ pullProgress = <<>>
    /\ ai_selected_model \in {Null, Fast1b}
    /\ backendUp \in BOOLEAN
    /\ installed \in {{}, {Fast1b}}
    /\ completePending = {}
    /\ ops = {}
    /\ subs = {}
    /\ intents = 0
    /\ toast = NoToast
    /\ last = [op |-> "init", id |-> Empty, alive |-> TRUE]
    /\ quiet = [m \in Models |-> "none"]

\* a Map<string, PullProgress> is the sequence of its values in insertion
\* order, each value carrying its key (model_id)
Keys(map) == { map[i].model_id : i \in DOMAIN map }

MapGet(map, k) == map[CHOOSE i \in DOMAIN map : map[i].model_id = k]

\* new Map(prev).set(k, v): a key the map holds keeps its place
MapSet(map, k, v) ==
    IF k \in Keys(map)
    THEN [i \in DOMAIN map |-> IF map[i].model_id = k THEN v ELSE map[i]]
    ELSE Append(map, v)

\* new Map(prev).delete(k)
MapDelete(map, k) ==
    SelectSeq(map, LAMBDA e : e.model_id # k)

(***************************************************************************)
(* useEffect(() => { loadModels(); checkOllama(); ...; listen(); listen(); *)
(* }, []): the calls are issued, none has resolved.  checkOllama closes    *)
(* over the selectedModel of this render.                                  *)
(***************************************************************************)
Mount ==
    /\ ~mounted
    /\ inst < MaxMounts
    /\ mounted' = TRUE
    /\ inst' = inst + 1
    /\ ops' = ops \cup { Op("load", Empty, Empty, "avail"),
                         Op("check", Empty, selectedModel, "call") }
    /\ subs' = subs \cup { Sub("progress"), Sub("complete") }
    /\ UNCHANGED <<compVars, ai_selected_model, backendVars, intents>>
    /\ toast' = NoToast
    /\ Did("mount", Empty)
    /\ Disturb
    /\ UNCHANGED <<batchVars, indicatorVars>>

(***************************************************************************)
(* The effect's cleanup: progressUnlisten.then((fn) => fn()) releases a    *)
(* subscription at once when its listen() promise has resolved (those in   *)
(* resolved), and otherwise when it resolves.  The instance's state is     *)
(* dropped with it, and the calls it has in flight go on without it.       *)
(***************************************************************************)
releaseOnCleanup(mine, resolved) ==
    { [s EXCEPT !.cleanup = TRUE] : s \in mine \ resolved }

Cleanup ==
    /\ mounted
    /\ mounted' = FALSE
    /\ LET mine == { s \in subs : s.inst = inst }
       IN \E resolved \in SUBSET mine :
            subs' = (subs \ mine) \cup releaseOnCleanup(mine, resolved)
    /\ ops' = { [op EXCEPT !.alive = FALSE] : op \in ops }
    /\ availableModels' = {}
    /\ downloadedModels' = {}
    /\ modelStatus' = "not_installed"
    /\ showDropdown' = FALSE
    /\ ollamaAvailable' = FALSE
    /\ pullProgress' = <<>>
    /\ UNCHANGED <<inst, ai_selected_model, backendVars, intents>>
    /\ toast' = NoToast
    /\ Did("cleanup", Empty)
    /\ Disturb
    /\ UNCHANGED <<batchVars, indicatorVars>>

(***************************************************************************)
(* The listen() promise of an unmounted instance resolves: the chained     *)
(* .then((fn) => fn()) calls unlisten.                                     *)
(***************************************************************************)
SubResolve(s) ==
    /\ s \in subs
    /\ s.cleanup
    /\ subs' = subs \ {s}
    /\ UNCHANGED <<mounted, inst, compVars, ai_selected_model, backendVars, ops, intents, quiet>>
    /\ UNCHANGED <<toast, last>>
    /\ UNCHANGED <<batchVars, indicatorVars>>

(***************************************************************************)
(* checkOllama, after await commands.checkOllamaAvailable().               *)
(***************************************************************************)
checkOllamaStatus(available, sel) ==
    IF ~available THEN "ollama_unavailable"
    ELSE IF sel # Empty THEN "ready"
    ELSE "not_installed"

CheckResolve(op, outcome) ==
    /\ op \in ops
    /\ op.kind = "check"
    /\ ops' = ops \ {op}
    /\ LET available == IF outcome = "ok" THEN backendUp ELSE FALSE
       IN IF op.alive
          THEN /\ ollamaAvailable' = available
               /\ modelStatus' = checkOllamaStatus(available, op.sel)
          ELSE UNCHANGED <<ollamaAvailable, modelStatus>>
    /\ UNCHANGED <<mounted, inst, availableModels, downloadedModels, showDropdown,
                   pullProgress, ai_selected_model, backendVars, subs, intents>>
    /\ toast' = NoToast
    /\ Did("check_resolved", Empty)
    /\ Disturb
    /\ UNCHANGED <<batchVars, indicatorVars>>

(***************************************************************************)
(* loadModels: two awaits in one try block.  A thrown first call skips the *)
(* second; an error result leaves the state it was to set alone.  The      *)
(* same two steps run inside handleModelDelete (await loadModels()), which *)
(* then goes on to its selectedModel === modelId test.                     *)
(***************************************************************************)
AfterLoad(op) ==
    IF op.kind = "delete" /\ op.sel = op.id
    THEN (ops \ {op}) \cup {[op EXCEPT !.phase = "persist"]}
    ELSE ops \ {op}

LoadAvailResolve(op, outcome) ==
    /\ op \in ops
    /\ op.kind \in {"load", "delete"}
    /\ op.phase = "avail"
    /\ availableModels' = IF outcome = "ok" /\ op.alive THEN Models ELSE availableModels
    /\ ops' = IF outcome = "throw" THEN AfterLoad(op)
              ELSE (ops \ {op}) \cup {[op EXCEPT !.phase = "list"]}
    /\ UNCHANGED <<mounted, inst, downloadedModels, modelStatus, showDropdown,
                   ollamaAvailable, pullProgress, ai_selected_model, backendVars,
                   subs, intents, quiet>>
    /\ UNCHANGED <<toast, last>>
    /\ UNCHANGED <<batchVars, indicatorVars>>

listOllamaModels == { BackendName(m) : m \in installed }

LoadListResolve(op, outcome) ==
    /\ op \in ops
    /\ op.kind \in {"load", "delete"}
    /\ op.phase = "list"
    /\ outcome = "ok" => backendUp
    /\ downloadedModels' = IF outcome = "ok" /\ op.alive THEN listOllamaModels
                           ELSE downloadedModels
    /\ ops' = AfterLoad(op)
    /\ UNCHANGED <<mounted, inst, availableModels, modelStatus, showDropdown,
                   ollamaAvailable, pullProgress, ai_selected_model, backendVars,
                   subs, intents, quiet>>
    /\ UNCHANGED <<toast, last>>
    /\ UNCHANGED <<batchVars, indicatorVars>>

loadModels == Op("load", Empty, Empty, "avail")

(***************************************************************************)
(* AiModelDropdown: which button a catalog row shows.                      *)
(***************************************************************************)
isModelDownloaded(modelId) ==
    \E m \in downloadedModels : StartsWith(m, modelId)

isPulling(modelId) == modelId \in Keys(pullProgress)

\* the row of a model being pulled: {Math.round(progress.percentage)}%
rowPercentage(map, modelId) == MapGet(map, modelId).percentage

PullButtonShown(id) ==
    /\ mounted
    /\ showDropdown
    /\ id \in availableModels
    /\ ~isPulling(id)
    /\ ~isModelDownloaded(id)

UseButtonShown(id) ==
    /\ mounted
    /\ showDropdown
    /\ id \in availableModels
    /\ ~isPulling(id)
    /\ isModelDownloaded(id)
    /\ selectedModel # id

DeleteButtonShown(id) ==
    /\ mounted
    /\ showDropdown
    /\ id \in availableModels
    /\ ~isPulling(id)
    /\ isModelDownloaded(id)

(***************************************************************************)
(* The settings accessor: updateSetting(key, value) resolves with the      *)
(* value stored, or rejects with the store as it was.                      *)
(***************************************************************************)
updateSetting(value, ok) ==
    ai_selected_model' = IF ok THEN value ELSE ai_selected_model

(***************************************************************************)
(* handleModelSelect: await updateSetting("ai_selected_model", modelId),   *)
(* then setModelStatus("ready").  Called by the Use button and by          *)
(* handleModelPull after a successful pull.                                *)
(***************************************************************************)
handleModelSelect(modelId) ==
    ops' = ops \cup {Op("select", modelId, Empty, "persist")}

ClickUse(id) ==
    /\ UseButtonShown(id)
    /\ intents < MaxIntents
    /\ intents' = intents + 1
    /\ handleModelSelect(id)
    /\ UNCHANGED <<mounted, inst, compVars, ai_selected_model, backendVars, subs>>
    /\ toast' = NoToast
    /\ Did("select", id)
    /\ Disturb
    /\ UNCHANGED <<batchVars, indicatorVars>>

\* the bug of a status set before the settings write has succeeded
selectStatusEager(op, ok) ==
    IF op.alive THEN "ready" ELSE modelStatus

selectStatus(op, ok) ==
    IF ok /\ op.alive THEN "ready" ELSE modelStatus

selectDropdown(op, ok) ==
    IF ok /\ op.alive THEN FALSE ELSE showDropdown

selectToast(op, ok) ==
    IF ok THEN Toasted("success", <<"Switched to ">> \o op.id)
    ELSE Toasted("error", FailedToSelect)

SelectPersistResolve(op, ok) ==
    /\ op \in ops
    /\ op.kind \in {"select", "pull"}
    /\ op.phase = "persist"
    /\ updateSetting(op.id, ok)
    /\ modelStatus' = selectStatus(op, ok)
    /\ showDropdown' = selectDropdown(op, ok)
    /\ toast' = selectToast(op, ok)
    /\ ops' = ops \ {op}
    /\ UNCHANGED <<mounted, inst, availableModels, downloadedModels, ollamaAvailable,
                   pullProgress, backendVars, subs, intents>>
    /\ IF op.kind = "pull"
       THEN /\ DidOp(IF ok THEN "pull_selected" ELSE "pull_select_failed", op)
            /\ IF ok /\ op.alive THEN MarkResult(op.id) ELSE Disturb
       ELSE /\ DidOp(IF ok THEN "selected" ELSE "select_failed", op)
            /\ Disturb
    /\ UNCHANGED <<batchVars, indicatorVars>>

(***************************************************************************)
(* handleModelPull up to await commands.pullOllamaModel(modelId).          *)
(***************************************************************************)
\* the first number no pull call in flight for modelId has
PullCallNumber(modelId) ==
    LET used == { op.n : op \in { o \in ops : o.kind = "pull" /\ o.id = modelId } }
    IN CHOOSE n \in 1..(Cardinality(used) + 1) :
          /\ n \notin used
          /\ \A m \in 1..(n - 1) : m \in used

handleModelPull(modelId) ==
    /\ modelStatus' = "pulling"
    /\ toast' = Toasted("info", <<"Pulling ">> \o modelId \o <<"... This may take a few minutes.">>)
    /\ ops' = ops \cup {[Op("pull", modelId, Empty, "call") EXCEPT !.n = PullCallNumber(modelId)]}

ClickPull(id) ==
    /\ PullButtonShown(id)
    /\ intents < MaxIntents
    /\ intents' = intents + 1
    /\ handleModelPull(id)
    /\ UNCHANGED <<mounted, inst, availableModels, downloadedModels, showDropdown,
                   ollamaAvailable, pullProgress, ai_selected_model, backendVars, subs>>
    /\ Did("pull", id)
    /\ Disturb
    /\ UNCHANGED <<batchVars, indicatorVars>>

(***************************************************************************)
(* The backend while a pull runs: progress events, then the end of the     *)
(* download, which stores the model, emits ai-model-pull-complete and      *)
(* answers the call.  The event and the answer travel separately.          *)
(***************************************************************************)
Downloading(id) ==
    \E op \in ops : op.kind = "pull" /\ op.id = id /\ op.phase = "call"

onPullProgress(progress) ==
    /\ pullProgress' = MapSet(pullProgress, progress.model_id, progress)
    /\ modelStatus' = "pulling"

ProgressEvent(id, progress) ==
    /\ Downloading(id)
    /\ \E s \in subs : s.type = "progress" /\ Live(s)
    /\ IF Hears("progress")
       THEN onPullProgress(progress)
       ELSE UNCHANGED <<pullProgress, modelStatus>>
    /\ UNCHANGED <<mounted, inst, availableModels, downloadedModels, showDropdown,
                   ollamaAvailable, ai_selected_model, backendVars, ops, subs, intents>>
    /\ toast' = NoToast
    /\ Did("progress_event", id)
    /\ Disturb
    /\ UNCHANGED <<batchVars, indicatorVars>>

BackendPullFinish(op, outcome) ==
    /\ op \in ops
    /\ op.kind = "pull"
    /\ op.phase = "call"
    /\ outcome = "ok" => backendUp
    /\ ops' = (ops \ {op}) \cup {[op EXCEPT !.phase = outcome]}
    /\ installed' = IF outcome = "ok" THEN installed \cup {op.id} ELSE installed
    /\ completePending' = IF outcome = "ok" THEN completePending \cup {op.id}
                          ELSE completePending
    /\ UNCHANGED <<mounted, inst, compVars, ai_selected_model, backendUp, subs,
                   intents, quiet>>
    /\ UNCHANGED <<toast, last>>
    /\ UNCHANGED <<batchVars, indicatorVars>>

(***************************************************************************)
(* The ai-model-pull-complete listener.                                    *)
(***************************************************************************)
\* the bug of a completion that empties the whole progress map
onPullCompleteClearsAll(modelId) ==
    /\ pullProgress' = <<>>
    /\ ops' = ops \cup {loadModels}
    /\ modelStatus' = "ready"

onPullComplete(modelId) ==
    /\ pullProgress' = MapDelete(pullProgress, modelId)
    /\ ops' = ops \cup {loadModels}
    /\ modelStatus' = "ready"

\* the listener's toast shows whichever instance the subscription is of
completeToast(modelId) ==
    IF \E s \in subs : s.type = "complete" /\ Live(s)
    THEN Toasted("success", modelId \o <<" downloaded successfully!">>)
    ELSE NoToast

CompleteEvent(id) ==
    /\ id \in completePending
    /\ completePending' = completePending \ {id}
    /\ toast' = completeToast(id)
    /\ IF Hears("complete")
       THEN onPullComplete(id) /\ Did("complete_event", id) /\ MarkComplete(id)
       ELSE UNCHANGED <<pullProgress, ops, modelStatus>>
            /\ Did("complete_unheard", id) /\ Disturb
    /\ UNCHANGED <<mounted, inst, availableModels, downloadedModels, showDropdown,
                   ollamaAvailable, ai_selected_model, backendUp, installed, subs, intents>>
    /\ UNCHANGED <<batchVars, indicatorVars>>

(***************************************************************************)
(* handleModelPull after the await: on "ok" it awaits handleModelSelect,   *)
(* otherwise (error result, or the catch block) it sets "error" and drops  *)
(* the id's progress entry.                                                *)
(***************************************************************************)
\* the bug of a success path that leaves the selection to the event listener
pullSucceededWithoutSelect(op) ==
    ops \ {op}

pullSucceeded(op) ==
    (ops \ {op}) \cup {[op EXCEPT !.phase = "persist"]}

\* toast.error(result.error || "Failed to pull model") of an error result,
\* toast.error("Failed to pull model") of the catch block
pullFailedToast(outcome, error) ==
    Toasted("error", IF outcome = "error" THEN OrElse(error, FailedToPull) ELSE FailedToPull)

\* the bug of a failed pull whose progress entry stays
pullFailedProgressKept(modelId) == pullProgress

pullFailedProgress(modelId) == MapDelete(pullProgress, modelId)

PullResolve(op, error) ==
    /\ op \in ops
    /\ op.kind = "pull"
    /\ op.phase \in Outcomes
    /\ IF op.phase = "ok"
       THEN /\ ops' = pullSucceeded(op)
            /\ toast' = NoToast
            /\ UNCHANGED <<modelStatus, pullProgress>>
            /\ DidOp("pull_ok", op)
            \* the handler has ended unless it awaits handleModelSelect
            /\ IF op.alive /\ ~(\E o \in ops' : o.kind = "pull" /\ o.id = op.id /\ o.phase = "persist")
               THEN MarkResult(op.id)
               ELSE UNCHANGED quiet
       ELSE /\ ops' = ops \ {op}
            /\ toast' = pullFailedToast(op.phase, error)
            /\ IF op.alive
               THEN /\ modelStatus' = "error"
                    /\ pullProgress' = pullFailedProgress(op.id)
               ELSE UNCHANGED <<modelStatus, pullProgress>>
            /\ DidOp("pull_failed", op)
            /\ Disturb
    /\ UNCHANGED <<mounted, inst, availableModels, downloadedModels, showDropdown,
                   ollamaAvailable, ai_selected_model, backendVars, subs, intents>>
    /\ UNCHANGED <<batchVars, indicatorVars>>

(***************************************************************************)
(* handleModelDelete: confirm(), then await commands.deleteOllamaModel.    *)
(* The closure holds the selectedModel of the render the click came from.  *)
(***************************************************************************)
\* the bug of a delete that does not wait for the confirmation
handleModelDeleteUnconfirmed(modelId, confirmed) ==
    ops' = ops \cup {Op("delete", modelId, selectedModel, "call")}

handleModelDelete(modelId, confirmed) ==
    ops' = IF confirmed THEN ops \cup {Op("delete", modelId, selectedModel, "call")}
           ELSE ops

ClickDelete(id, confirmed) ==
    /\ DeleteButtonShown(id)
    /\ intents < MaxIntents
    /\ intents' = intents + 1
    /\ handleModelDelete(id, confirmed)
    /\ toast' = NoToast
    /\ UNCHANGED <<mounted, inst, compVars, ai_selected_model, backendVars, subs>>
    /\ Did(IF confirmed THEN "delete" ELSE "delete_declined", id)
    /\ Disturb
    /\ UNCHANGED <<batchVars, indicatorVars>>

\* toast.success(`${modelId} deleted`), toast.error(result.error || "Failed
\* to delete model") of an error result, toast.error("Failed to delete
\* model") of the catch block
deleteToast(op, outcome, error) ==
    IF outcome = "ok" THEN Toasted("success", op.id \o <<" deleted">>)
    ELSE IF outcome = "error" THEN Toasted("error", OrElse(error, FailedToDelete))
    ELSE Toasted("error", FailedToDelete)

\* the bug of a failed delete that refreshes the lists all the same
deleteCallResolvedRefreshes(op, outcome) ==
    (ops \ {op}) \cup {[op EXCEPT !.phase = "avail"]}

deleteCallResolved(op, outcome) ==
    IF outcome = "ok" THEN (ops \ {op}) \cup {[op EXCEPT !.phase = "avail"]}
    ELSE ops \ {op}

DeleteResolve(op, outcome, error) ==
    /\ op \in ops
    /\ op.kind = "delete"
    /\ op.phase = "call"
    /\ outcome = "ok" => backendUp /\ op.id \in installed
    /\ installed' = IF outcome = "ok" THEN installed \ {op.id} ELSE installed
    /\ ops' = deleteCallResolved(op, outcome)
    /\ toast' = deleteToast(op, outcome, error)
    /\ UNCHANGED <<mounted, inst, compVars, ai_selected_model, backendUp,
                   completePending, subs, intents>>
    /\ DidOp(IF outcome = "ok" THEN "delete_ok" ELSE "delete_failed", op)
    /\ Disturb
    /\ UNCHANGED <<batchVars, indicatorVars>>

\* the bug of a cleared selection whose status is left as it was
deleteStatusKept(op, ok) ==
    modelStatus

deleteStatus(op, ok) ==
    IF ok /\ op.alive THEN "not_installed" ELSE modelStatus

DeletePersistResolve(op, ok) ==
    /\ op \in ops
    /\ op.kind = "delete"
    /\ op.phase = "persist"
    /\ updateSetting(Null, ok)
    /\ modelStatus' = deleteStatus(op, ok)
    /\ toast' = IF ok THEN NoToast ELSE Toasted("error", FailedToDelete)
    /\ ops' = ops \ {op}
    /\ UNCHANGED <<mounted, inst, availableModels, downloadedModels, showDropdown,
                   ollamaAvailable, pullProgress, backendVars, subs, intents>>
    /\ DidOp(IF ok THEN "delete_cleared" ELSE "delete_clear_failed", op)
    /\ Disturb
    /\ UNCHANGED <<batchVars, indicatorVars>>

(***************************************************************************)
(* The status button toggles the dropdown; a mousedown outside closes it.  *)
(***************************************************************************)
ToggleDropdown ==
    /\ mounted
    /\ showDropdown' = ~showDropdown
    /\ UNCHANGED <<mounted, inst, availableModels, downloadedModels, modelStatus,
                   ollamaAvailable, pullProgress, ai_selected_model, backendVars,
                   ops, subs, intents, toast, last, quiet>>
    /\ UNCHANGED <<batchVars, indicatorVars>>

handleClickOutside ==
    /\ mounted
    /\ showDropdown' = FALSE
    /\ UNCHANGED <<mounted, inst, availableModels, downloadedModels, modelStatus,
                   ollamaAvailable, pullProgress, ai_selected_model, backendVars,
                   ops, subs, intents, toast, last, quiet>>
    /\ UNCHANGED <<batchVars, indicatorVars>>

(***************************************************************************)
(* getDisplayText: the text of the status button.  The first value of the  *)
(* progress map wins over the status.                                      *)
(***************************************************************************)
getDisplayText ==
    IF Len(pullProgress) > 0
    THEN LET progress == pullProgress[1]
         IN IF progress.percentage > 0
            THEN <<"Pulling ", ToString(progress.percentage), "%">>
            ELSE <<"Pulling ", progress.status, "...">>
    ELSE CASE modelStatus = "ready" -> OrElse(selectedModel, <<"No Model Selected">>)
           [] modelStatus = "pulling" -> <<"Pulling model...">>
           [] modelStatus = "error" -> <<"Error">>
           [] modelStatus = "not_installed" -> <<"No Model - Pull Required">>
           [] modelStatus = "ollama_unavailable" -> <<"Ollama Not Running">>
           [] OTHER -> <<"Select Model">>

(***************************************************************************)
(* AiStatusIndicator.checkStatus: is the selected model a downloaded one?  *)
(* selectedModel && models.data.includes(selectedModel)                    *)
(***************************************************************************)
selectedModelDownloaded(data, selected) ==
    selected # Empty /\ selected \in data

Next ==
    \/ Mount
    \/ Cleanup
    \/ \E s \in subs : SubResolve(s)
    \/ \E op \in ops, outcome \in Outcomes : CheckResolve(op, outcome)
    \/ \E op \in ops, outcome \in Outcomes : LoadAvailResolve(op, outcome)
    \/ \E op \in ops, outcome \in Outcomes : LoadListResolve(op, outcome)
    \/ \E id \in Models : ClickUse(id)
    \/ \E op \in ops, ok \in BOOLEAN : SelectPersistResolve(op, ok)
    \/ \E id \in Models : ClickPull(id)
    \/ \E id \in Models : \E progress \in ProgressPayloads(id) : ProgressEvent(id, progress)
    \/ \E op \in ops, outcome \in Outcomes : BackendPullFinish(op, outcome)
    \/ \E id \in Models : CompleteEvent(id)
    \/ \E op \in ops, error \in BackendErrors : PullResolve(op, error)
    \/ \E id \in Models, confirmed \in BOOLEAN : ClickDelete(id, confirmed)
    \/ \E op \in ops, outcome \in Outcomes, error \in BackendErrors :
            DeleteResolve(op, outcome, error)
    \/ \E op \in ops, ok \in BOOLEAN : DeletePersistResolve(op, ok)
    \/ ToggleDropdown
    \/ handleClickOutside

Spec == Init /\ [][Next]_vars

(***************************************************************************)
(* React batching.  A handler's setState calls are queued and take effect  *)
(* at the next render: a value replaces the state, an updater function     *)
(* (prev) => ... is applied to the state the calls queued before it have   *)
(* produced.  SpecBatch follows the handlers that touch the progress map   *)
(* (the two listeners and the failure path of handleModelPull) from a      *)
(* state with a pull of every catalog model in flight, several handlers    *)
(* running in one turn.                                                    *)
(***************************************************************************)
SetProgress(progress) ==
    [state |-> "pullProgress", call |-> "set", key |-> progress.model_id, arg |-> progress]

DeleteProgress(modelId) ==
    [state |-> "pullProgress", call |-> "delete", key |-> modelId, arg |-> Null]

SetStatus(value) ==
    [state |-> "modelStatus", call |-> "value", key |-> Empty, arg |-> value]

\* the bug of an updater that starts from the map of the last render
setUpdaterFromRendered(prev, progress) ==
    MapSet(pullProgress, progress.model_id, progress)

\* (prev) => { const newMap = new Map(prev); newMap.set(...); return newMap; }
setUpdater(prev, progress) ==
    MapSet(prev, progress.model_id, progress)

\* (prev) => { const newMap = new Map(prev); newMap.delete(modelId); return newMap; }
deleteUpdater(prev, modelId) ==
    MapDelete(prev, modelId)

RECURSIVE renderProgress(_, _)
renderProgress(queue, prev) ==
    IF queue = <<>> THEN prev
    ELSE LET u == Head(queue)
         IN renderProgress(Tail(queue),
                IF u.state # "pullProgress" THEN prev
                ELSE IF u.call = "set" THEN setUpdater(prev, u.arg)
                ELSE deleteUpdater(prev, u.key))

RECURSIVE renderStatus(_, _)
renderStatus(queue, prev) ==
    IF queue = <<>> THEN prev
    ELSE LET u == Head(queue)
         IN renderStatus(Tail(queue), IF u.state = "modelStatus" THEN u.arg ELSE prev)

BothPulling ==
    { [Op("pull", m, Empty, "call") EXCEPT !.n = 1] : m \in Models }

BatchInit ==
    /\ mounted = TRUE
    /\ inst = 1
    /\ availableModels = Models
    /\ downloadedModels = {}
    /\ modelStatus = "pulling"
    /\ showDropdown = TRUE
    /\ ollamaAvailable = TRUE
    /\ pullProgress = <<>>
    /\ ai_selected_model = Null
    /\ backendUp = TRUE
    /\ installed = {}
    /\ completePending = {}
    /\ ops = BothPulling
    /\ subs = { [type |-> "progress", inst |-> 1, cleanup |-> FALSE],
                [type |-> "complete", inst |-> 1, cleanup |-> FALSE] }
    /\ intents = 2
    /\ toast = Toasted("info", <<"Pulling ">> \o Big7b \o <<"... This may take a few minutes.">>)
    /\ last = [op |-> "pull", id |-> Big7b, alive |-> TRUE]
    /\ quiet = [m \in Models |-> "none"]
    /\ updateQueue = <<>>
    /\ applied = <<>>
    /\ ai_enhancement_enabled = FALSE
    /\ indicator = IndicatorUnmounted
    /\ checks = {}
    /\ effectRun = 0
    /\ statusFrom = 0

TurnOpen == Len(updateQueue) < 2 * MaxBatch

\* the ai-model-pull-progress listener
QueuedProgressEvent(id, progress) ==
    /\ Downloading(id)
    /\ Hears("progress")
    /\ TurnOpen
    /\ updateQueue' = updateQueue \o <<SetProgress(progress), SetStatus("pulling")>>
    /\ toast' = NoToast
    /\ Did("progress_event", id)
    /\ UNCHANGED <<mounted, inst, compVars, ai_selected_model, backendVars, ops, subs,
                   intents, quiet, applied, indicatorVars>>

\* the ai-model-pull-complete listener
QueuedCompleteEvent(id) ==
    /\ id \in completePending
    /\ Hears("complete")
    /\ TurnOpen
    /\ completePending' = completePending \ {id}
    /\ updateQueue' = updateQueue \o <<DeleteProgress(id), SetStatus("ready")>>
    /\ ops' = ops \cup {loadModels}
    /\ toast' = completeToast(id)
    /\ Did("complete_event", id)
    /\ UNCHANGED <<mounted, inst, compVars, ai_selected_model, backendUp, installed,
                   subs, intents, quiet, applied, indicatorVars>>

\* handleModelPull after the await, error result or catch block
QueuedPullFailed(op, error) ==
    /\ op \in ops
    /\ op.kind = "pull"
    /\ op.phase \in {"error", "throw"}
    /\ op.alive
    /\ TurnOpen
    /\ ops' = ops \ {op}
    /\ toast' = pullFailedToast(op.phase, error)
    /\ updateQueue' = updateQueue \o <<SetStatus("error"), DeleteProgress(op.id)>>
    /\ DidOp("pull_failed", op)
    /\ UNCHANGED <<mounted, inst, compVars, ai_selected_model, backendVars, subs,
                   intents, quiet, applied, indicatorVars>>

\* React renders: the queued calls are applied in the order of their calls
Render ==
    /\ updateQueue # <<>>
    /\ pullProgress' = renderProgress(updateQueue, pullProgress)
    /\ modelStatus' = renderStatus(updateQueue, modelStatus)
    /\ applied' = updateQueue
    /\ updateQueue' = <<>>
    /\ UNCHANGED <<mounted, inst, availableModels, downloadedModels, showDropdown,
                   ollamaAvailable, ai_selected_model, backendVars, ops, subs,
                   intents, toast, last, quiet, indicatorVars>>

BatchNext ==
    \/ \E id \in Models : \E progress \in ProgressPayloads(id) :
            QueuedProgressEvent(id, progress)
    \/ \E op \in ops, outcome \in Outcomes : BackendPullFinish(op, outcome)
    \/ \E id \in Models : QueuedCompleteEvent(id)
    \/ \E op \in ops, error \in BackendErrors : QueuedPullFailed(op, error)
    \/ \E op \in ops, outcome \in Outcomes : LoadAvailResolve(op, outcome)
    \/ \E op \in ops, outcome \in Outcomes : LoadListResolve(op, outcome)
    \/ Render

SpecBatch == BatchInit /\ [][BatchNext]_vars

(***************************************************************************)
(* AiStatusIndicator.  Its effect has the dependencies [aiEnabled,         *)
(* selectedModel]: each change of one of the two settings re-runs it, and  *)
(* each run calls checkStatus() and subscribes again.  checkStatus closes  *)
(* over the aiEnabled and selectedModel of the render of its effect run;   *)
(* nothing cancels a call in flight when the effect runs again.            *)
(* SpecIndicator follows the indicator alone, the settings being changed   *)
(* from the settings window, and the events of pulls started there.        *)
(***************************************************************************)
AiStatus == {"ready", "loading", "pulling", "error", "off", "no_ollama"}

\* const aiEnabled = getSetting("ai_enhancement_enabled") ?? false
aiEnabled == ai_enhancement_enabled

\* the payload of an ai-model-pull-progress event as the indicator reads it
AiPullProgress(id) ==
    [model |-> id, status |-> "downloading", percentage |-> 50]

\* a checkStatus call in flight: the effect run it belongs to, the settings
\* of its closure and the await it is at; n tells the calls of one effect
\* run apart
RunningChecks(run) == { c \in checks : c.run = run }

checkStatus(run, enabled, selected) ==
    [run |-> run, aiEnabled |-> enabled, selectedModel |-> selected, phase |-> "avail",
     n |-> CHOOSE n \in 1..(Cardinality(RunningChecks(run)) + 1) :
              /\ n \notin { c.n : c \in RunningChecks(run) }
              /\ \A m \in 1..(n - 1) : m \in { c.n : c \in RunningChecks(run) }]

IndicatorInit ==
    /\ mounted = FALSE
    /\ inst = 0
    /\ availableModels = {}
    /\ downloadedModels = {}
    /\ modelStatus = "not_installed"
    /\ showDropdown = FALSE
    /\ ollamaAvailable = FALSE
    /\ pullProgress = <<>>
    /\ ai_selected_model \in {Null, Fast1b}
    /\ backendUp = TRUE
    /\ installed \in {{}, {Fast1b}}
    /\ completePending = {}
    /\ ops = {}
    /\ subs = {}
    /\ intents = 0
    /\ toast = NoToast
    /\ last = [op |-> "init", id |-> Empty, alive |-> TRUE]
    /\ quiet = [m \in Models |-> "none"]
    /\ updateQueue = <<>>
    /\ applied = <<>>
    /\ ai_enhancement_enabled \in BOOLEAN
    /\ indicator = IndicatorUnmounted
    /\ effectRun = 1
    /\ checks = { [run |-> 1, aiEnabled |-> ai_enhancement_enabled,
                   selectedModel |-> selectedModel, phase |-> "avail", n |-> 1] }
    /\ statusFrom = 0

selectorVars ==
    <<mounted, inst, compVars, backendVars, ops, subs, intents, toast, last, quiet, batchVars>>

\* the effect's cleanup and its next run, after a render with a changed
\* aiEnabled or selectedModel
effectReRun ==
    /\ effectRun < MaxEffectRuns
    /\ Cardinality(checks) < MaxChecks
    /\ effectRun' = effectRun + 1
    /\ checks' = checks \cup {checkStatus(effectRun + 1, ai_enhancement_enabled', selectedModel')}

\* toggleAi: the indicator's own button
toggleAi ==
    /\ indicator.ollamaAvailable
    /\ ai_enhancement_enabled' = ~aiEnabled
    /\ UNCHANGED ai_selected_model
    /\ effectReRun
    /\ UNCHANGED <<indicator, statusFrom, selectorVars>>

\* the settings window writes one of the two settings
SettingChanged ==
    /\ \/ /\ ai_enhancement_enabled' = ~ai_enhancement_enabled
          /\ UNCHANGED ai_selected_model
       \/ /\ ai_selected_model' \in {Null, Fast1b, Big7b} \ {ai_selected_model}
          /\ UNCHANGED ai_enhancement_enabled
    /\ effectReRun
    /\ UNCHANGED <<indicator, statusFrom, selectorVars>>

\* checkStatus after await commands.checkOllamaAvailable()
IndicatorAvailResolve(c, outcome) ==
    /\ c \in checks
    /\ c.phase = "avail"
    /\ LET isAvailable == outcome = "ok" /\ backendUp
       IN IF outcome = "throw"
          THEN /\ indicator' = [indicator EXCEPT !.status = "error"]
               /\ checks' = checks \ {c}
               /\ statusFrom' = c.run
          ELSE IF ~isAvailable
          THEN /\ indicator' = [indicator EXCEPT !.ollamaAvailable = FALSE,
                                                 !.status = "no_ollama"]
               /\ checks' = checks \ {c}
               /\ statusFrom' = c.run
          ELSE IF ~c.aiEnabled
          THEN /\ indicator' = [indicator EXCEPT !.ollamaAvailable = TRUE,
                                                 !.status = "off"]
               /\ checks' = checks \ {c}
               /\ statusFrom' = c.run
          ELSE /\ indicator' = [indicator EXCEPT !.ollamaAvailable = TRUE]
               /\ checks' = (checks \ {c}) \cup {[c EXCEPT !.phase = "list"]}
               /\ UNCHANGED statusFrom
    /\ UNCHANGED <<ai_enhancement_enabled, ai_selected_model, effectRun, selectorVars>>

listedStatus(data, selected) ==
    IF selectedModelDownloaded(data, selected) THEN "ready"
    ELSE IF selected # Empty THEN "loading"
    ELSE "off"

\* checkStatus after await commands.listOllamaModels()
IndicatorListResolve(c, outcome) ==
    /\ c \in checks
    /\ c.phase = "list"
    /\ checks' = checks \ {c}
    /\ IF outcome = "throw"
       THEN /\ indicator' = [indicator EXCEPT !.status = "error"]
            /\ statusFrom' = c.run
       ELSE IF outcome = "error"
       THEN UNCHANGED <<indicator, statusFrom>>
       ELSE /\ indicator' =
                 [indicator EXCEPT
                    !.downloadedModels = listOllamaModels,
                    !.currentModel =
                        IF selectedModelDownloaded(listOllamaModels, c.selectedModel)
                        THEN c.selectedModel ELSE indicator.currentModel,
                    !.status = listedStatus(listOllamaModels, c.selectedModel)]
            /\ statusFrom' = c.run
    /\ UNCHANGED <<ai_enhancement_enabled, ai_selected_model, effectRun, selectorVars>>

\* the indicator's ai-model-pull-progress listener
IndicatorProgressEvent(id) ==
    /\ indicator' = [indicator EXCEPT !.pullProgress = AiPullProgress(id),
                                      !.status = "pulling"]
    /\ UNCHANGED <<ai_enhancement_enabled, ai_selected_model, checks, effectRun,
                   statusFrom, selectorVars>>

\* the indicator's ai-model-pull-complete listener, of the latest effect run
IndicatorCompleteEvent ==
    /\ Cardinality(checks) < MaxChecks
    /\ indicator' = [indicator EXCEPT !.pullProgress = Null]
    /\ checks' = checks \cup {checkStatus(effectRun, aiEnabled, selectedModel)}
    /\ UNCHANGED <<ai_enhancement_enabled, ai_selected_model, effectRun,
                   statusFrom, selectorVars>>

IndicatorNext ==
    \/ toggleAi
    \/ SettingChanged
    \/ \E c \in checks, outcome \in Outcomes : IndicatorAvailResolve(c, outcome)
    \/ \E c \in checks, outcome \in Outcomes : IndicatorListResolve(c, outcome)
    \/ \E id \in Models : IndicatorProgressEvent(id)
    \/ IndicatorCompleteEvent

SpecIndicator == IndicatorInit /\ [][IndicatorNext]_vars

(***************************************************************************)
(* The claims.                                                             *)
(***************************************************************************)
NoCheckPending == ~(\E op \in ops : op.kind = "check" /\ op.alive)

KnownUnavailable == mounted /\ NoCheckPending /\ ~ollamaAvailable /\ ~backendUp

LiveSubs(type) == { s \in subs : s.type = type /\ Live(s) }

\* C1: a pull invoked while the backend is known to be unavailable makes no
\* pull call and leaves the status at unavailable.  (States the claim; the
\* code issues the call and sets "pulling".)
C1_PullRejectedWhenUnavailable ==
    (last.op = "pull" /\ KnownUnavailable) =>
        /\ ~(\E op \in ops : op.kind = "pull" /\ op.id = last.id)
        /\ modelStatus = "ollama_unavailable"

\* C2: once the availability check has answered "unavailable", the status is
\* unavailable in every state, whatever operation or event came after.
C2_UnavailableOverrides ==
    (mounted /\ NoCheckPending /\ ~ollamaAvailable) => modelStatus = "ollama_unavailable"

\* C3: with the backend available and some progress entry present, the
\* status is pulling.
C3_PullingWhileProgress ==
    (mounted /\ ollamaAvailable /\ Keys(pullProgress) # {}) => modelStatus = "pulling"

\* C4: after the pull call for id has resolved successfully and its success
\* path has run, while id's completion event is still to be delivered, the
\* status is still pulling.
C4_PullingUntilCompletion ==
    \A id \in Models :
        (last.op = "pull_selected" /\ last.id = id /\ last.alive /\ id \in completePending)
            => modelStatus = "pulling"

\* C5: when both the successful pull result of id (with the selection
\* persisted) and id's completion event have been handled and no other
\* operation came between or after them, id is the selected model and the
\* status is ready.
C5_PulledModelSelected ==
    \A id \in Models :
        quiet[id] = "both" => (ai_selected_model = id /\ modelStatus = "ready")

C5_Witness ==
    \E id \in Models :
        /\ quiet[id] = "both"
        /\ last.op = "pull_selected"
        /\ ai_selected_model = id
        /\ modelStatus = "ready"

\* C6: whichever of {pull result of id, completion event of id} is handled
\* first removes id's progress entry and starts a catalog refresh, and
\* handling the other one afterwards changes nothing in the controller.
PullResultStep(id) ==
    \E op \in ops :
        op.kind = "pull" /\ op.id = id /\ op.phase = "ok" /\ op.alive /\ PullResolve(op, Empty)

CompleteStep(id) == Hears("complete") /\ CompleteEvent(id)

\* the other of the two is still to come
CompletionToCome(id) == id \in completePending

PullResultToCome(id) ==
    \E op \in ops : op.kind = "pull" /\ op.id = id /\ op.phase = "ok" /\ op.alive

ClearsAndRefreshes(id) ==
    /\ id \notin Keys(pullProgress')
    /\ loadModels \in ops'

ChangesNothing ==
    /\ UNCHANGED <<compVars, ai_selected_model>>
    /\ ops' \subseteq ops

C6_EitherOrderClears ==
    [][\A id \in Models :
          /\ PullResultStep(id) =>
                IF CompletionToCome(id) THEN ClearsAndRefreshes(id) ELSE ChangesNothing
          /\ CompleteStep(id) =>
                IF PullResultToCome(id) THEN ClearsAndRefreshes(id) ELSE ChangesNothing]_vars

\* C7: no state has id's progress entry removed by id's completion event
\* while the downloaded-models list is still the one from before the
\* completion (it does not hold id).
C7_RefreshBeforeClear ==
    \A id \in Models :
        (mounted /\ last.op = "complete_event" /\ last.id = id /\ id \notin Keys(pullProgress))
            => isModelDownloaded(id)

C9_DeclinedDeleteCallsNothing ==
    [][\A id \in Models :
          ClickDelete(id, FALSE) => UNCHANGED <<ops, ai_selected_model, backendVars>>]_vars

C9_Witness ==
    /\ last.op = "delete_declined"
    /\ mounted
    /\ isModelDownloaded(last.id)

\* C10: while the controller is active there is exactly one live
\* subscription per event type, and none once it is deactivated.
C10_OneSubscriptionPerType ==
    \A type \in {"progress", "complete"} :
        Cardinality(LiveSubs(type)) = IF mounted THEN 1 ELSE 0

\* C11: once the controller is deactivated with a pull in flight, no later
\* progress event, completion event or result of that pull changes the
\* progress map, the status or the selected model.  (States the claim; the
\* pull's success path still persists the selection.)
OrphanedPullStep(op) ==
    \/ \E progress \in ProgressPayloads(op.id) : ProgressEvent(op.id, progress)
    \/ CompleteEvent(op.id)
    \/ \E error \in BackendErrors : PullResolve(op, error)
    \/ \E ok \in BOOLEAN : SelectPersistResolve(op, ok)

C11_IgnoredAfterDeactivation ==
    [][\A op \in ops :
          (op.kind = "pull" /\ ~op.alive /\ OrphanedPullStep(op))
              => UNCHANGED <<pullProgress, modelStatus, ai_selected_model>>]_vars

\* C12: the status is ready only when the selected model is matched by an
\* entry of the downloaded-models list fetched last.  (States the claim; the
\* code sets "ready" without looking at the list.)
C12_ReadyOnlyIfDownloaded ==
    (mounted /\ modelStatus = "ready") =>
        (selectedModel # Empty /\ isModelDownloaded(selectedModel))

\* C13: from one progress event for id to the next, with no completion
\* between them, the percentage the dropdown row of id shows does not
\* decrease, and it is never above 100.  (States the claim; the listener
\* stores each payload as it comes.)
C13_PercentageNeverDecreases ==
    [][\A id \in Models :
          (isPulling(id) /\ id \in Keys(pullProgress'))
              => /\ rowPercentage(pullProgress', id) >= rowPercentage(pullProgress, id)
                 /\ rowPercentage(pullProgress', id) <= 100]_vars

\* C14: the completion event of a model id b leaves the progress entry of
\* every other id a in place and as it was, also after a's pull call has
\* resolved successfully.
C14_NoCrossModelClearing ==
    [][\A a \in Models, b \in Models :
          (a # b /\ isPulling(a) /\ CompleteEvent(b))
              => /\ a \in Keys(pullProgress')
                 /\ MapGet(pullProgress', a) = MapGet(pullProgress, a)]_vars

C14_Witness ==
    \E a \in Models, b \in Models :
        /\ a # b
        /\ last = [op |-> "complete_event", id |-> b, alive |-> TRUE]
        /\ isPulling(a)
        /\ \E op \in ops : op.kind = "pull" /\ op.id = a /\ op.phase \in {"ok", "persist"}

\* C15: when the pull call for id fails (error result or thrown exception)
\* and the active controller handles it, id's progress entry is gone, the
\* status is error and the notification is an error carrying the backend's
\* message when the result has a non-empty one, the generic text otherwise.
C15_PullFailureReported ==
    [][\A op \in ops, error \in BackendErrors :
          (op.kind = "pull" /\ op.phase \in {"error", "throw"} /\ op.alive
              /\ PullResolve(op, error))
              => /\ ~(op.id \in Keys(pullProgress'))
                 /\ modelStatus' = "error"
                 /\ toast' = [level |-> "error",
                              text |-> IF op.phase = "error" /\ error # Empty
                                       THEN error ELSE <<"Failed to pull model">>]]_vars

C15_Witness ==
    /\ mounted
    /\ last.op = "pull_failed"
    /\ last.alive
    /\ modelStatus = "error"
    /\ ~isPulling(last.id)
    /\ toast = [level |-> "error", text |-> <<"model not found">>]

\* C16: when the settings write of selectModel(id) fails, an error
\* notification is raised, the selected model is the one it was, the status
\* is not changed (not set to ready) and the dropdown is not closed.
C16_SelectFailureCommitsNothing ==
    [][\A op \in ops :
          (op.phase = "persist" /\ op.kind \in {"select", "pull"}
              /\ SelectPersistResolve(op, FALSE))
              => /\ toast' = [level |-> "error", text |-> <<"Failed to select model">>]
                 /\ UNCHANGED <<ai_selected_model, modelStatus, showDropdown>>]_vars

C16_Witness ==
    /\ mounted
    /\ last.op = "select_failed"
    /\ last.alive
    /\ showDropdown
    /\ modelStatus # "ready"
    /\ ai_selected_model # last.id
    /\ toast = [level |-> "error", text |-> <<"Failed to select model">>]

\* C17: when the delete call for id fails (error result or thrown
\* exception), the controller's state and the selected model are as they
\* were, the handler issues no further call, and an error notification is
\* raised with the backend's message when there is one.
C17_DeleteFailureLeavesState ==
    [][\A op \in ops, outcome \in {"error", "throw"}, error \in BackendErrors :
          (op.kind = "delete" /\ op.phase = "call" /\ DeleteResolve(op, outcome, error))
              => /\ UNCHANGED <<compVars, ai_selected_model>>
                 /\ ops' = ops \ {op}
                 /\ toast' = [level |-> "error",
                              text |-> IF outcome = "error" /\ error # Empty
                                       THEN error ELSE <<"Failed to delete model">>]]_vars

C17_Witness ==
    /\ mounted
    /\ last.op = "delete_failed"
    /\ last.alive
    /\ isModelDownloaded(last.id)
    /\ toast = [level |-> "error", text |-> <<"model not found">>]

\* C18: every place that decides whether the selected model is downloaded
\* uses the prefix rule of the dropdown: on the downloaded-models list the
\* backend has answered, the status indicator's test agrees with "some
\* entry starts with the id".  (States the claim; the indicator tests with
\* includes, an exact match.)
C18_SamePrefixRule ==
    (mounted /\ selectedModel # Empty /\ downloadedModels = listOllamaModels) =>
        (selectedModelDownloaded(downloadedModels, selectedModel)
            <=> isModelDownloaded(selectedModel))

\* C19: with the backend known to be available, no progress entry, no pull
\* call in flight and no error status, the status is not_installed when no
\* model is selected and ready otherwise; and with nothing downloaded and
\* nothing selected the display reads "No Model - Pull Required".  (States
\* the claim; the completion listener sets "ready" whatever the selection.)
NoPullInFlight == ~(\E op \in ops : op.kind = "pull")

Settled ==
    /\ mounted
    /\ NoCheckPending
    /\ ollamaAvailable
    /\ Keys(pullProgress) = {}
    /\ NoPullInFlight
    /\ modelStatus # "error"

C19_StatusFollowsSelection ==
    Settled =>
        /\ modelStatus = IF selectedModel = Empty THEN "not_installed" ELSE "ready"
        /\ (selectedModel = Empty /\ downloadedModels = {})
               => getDisplayText = <<"No Model - Pull Required">>

\* C20: a delete of id that completes while another model is the selected
\* one neither unsets that selection nor changes the status.  (States the
\* claim; the handler compares id with the selectedModel of the render the
\* click came from.)
C20_DeleteKeepsNewerSelection ==
    [][\A op \in ops, ok \in BOOLEAN :
          (op.kind = "delete" /\ op.phase = "persist" /\ selectedModel # op.id
              /\ DeletePersistResolve(op, ok))
              => UNCHANGED <<ai_selected_model, modelStatus>>]_vars

\* C22: at most one pull call per model id is in flight (issued and not yet
\* answered) at any time, also before the first progress event for the id
\* has arrived.  (States the claim; the Pull button stays enabled until the
\* first progress event and handleModelPull has no guard.)
PullCallsInFlight(id) ==
    { op \in ops : op.kind = "pull" /\ op.id = id /\ op.phase = "call" /\ op.alive }

C22_OnePullPerModel ==
    \A id \in Models : Cardinality(PullCallsInFlight(id)) <= 1

\* C21: a render leaves in the progress map, for every model id, what the
\* last queued update for that id asked for (the payload of a set, no entry
\* after a delete) and leaves an id no queued update names as it was: no
\* update for one id discards an update for another, also when several
\* handlers ran in the same turn.
UpdatesFor(queue, id) ==
    SelectSeq(queue, LAMBDA u : u.state = "pullProgress" /\ u.key = id)

EntryAsBefore(id) ==
    /\ (id \in Keys(pullProgress')) = (id \in Keys(pullProgress))
    /\ id \in Keys(pullProgress) => MapGet(pullProgress', id) = MapGet(pullProgress, id)

C21_NoLostUpdate ==
    [][Render =>
          \A id \in Models :
              LET mine == UpdatesFor(updateQueue, id)
              IN IF mine = <<>> THEN EntryAsBefore(id)
                 ELSE IF mine[Len(mine)].call = "set"
                      THEN /\ id \in Keys(pullProgress')
                           /\ MapGet(pullProgress', id) = mine[Len(mine)].arg
                      ELSE ~(id \in Keys(pullProgress'))]_vars

C21_Witness ==
    /\ updateQueue = <<>>
    /\ UpdatesFor(applied, Fast1b) # <<>>
    /\ UpdatesFor(applied, Big7b) # <<>>
    /\ Head(UpdatesFor(applied, Fast1b)).call = "set"
    /\ Fast1b \in Keys(pullProgress)
    /\ Big7b \in Keys(pullProgress)

\* C23: in AiStatusIndicator a checkStatus call of an older effect run
\* (older aiEnabled / selectedModel) never sets the status after a call of
\* a newer run has set it.  (States the claim; the calls answer in any order
\* and each sets the status.)
IndicatorCheckStep(c) ==
    \E outcome \in Outcomes :
        IndicatorAvailResolve(c, outcome) \/ IndicatorListResolve(c, outcome)

C23_OlderCheckNeverOverwrites ==
    [][\A c \in checks :
          (IndicatorCheckStep(c) /\ c.run < statusFrom)
              => indicator'.status = indicator.status]_vars

====
